---- MODULE Spec2Model ----
(***************************************************************************)
(* Model of backtest/ml/trainModel.py: the one-shot XGBoost training       *)
(* pipeline.  The script is a straight line of steps; every step is one    *)
(* action.  Feature values are small integers, probabilities are integer   *)
(* percentages (0..100) and every real-valued statistic is an exact        *)
(* fraction <<numerator, denominator>>.  What the fitted booster answers   *)
(* (best iteration, predicted probabilities) is a function of the input    *)
(* that the script cannot influence (random_state=42); it is carried as    *)
(* the input `fitted`.                                                     *)
(***************************************************************************)
EXTENDS Integers, Sequences, FiniteSets, TLC

VARIABLES
    packages_ok,   \* do the imports of lines 28-34 succeed
    argv,          \* sys.argv[1:]
    dataset,       \* content of the features file
    fitted,        \* what the library will fit on this dataset
    pc,            \* position in the script
    exit_status,   \* <<>> while running, <<code>> once the process has ended
    stdout,        \* tags of the messages printed that end or open a run
    started,       \* steps of main begun, in order
    completed,     \* steps of main that returned, in order
    failed_at,     \* <<>> or <<step>>: the step that raised
    loaded,        \* <<>> or <<[X_train, y_train, X_test, y_test]>>
    scaler,        \* <<>> or <<[mean_, scale_]>>
    normed,        \* <<>> or <<[X_train_norm, X_test_norm]>>
    model,         \* <<>> or <<[best_iteration, num_boosted_rounds]>>
    metrics,       \* <<>> or <<the dict evaluate_model returns>>
    cv_model,      \* <<>> or <<[n_estimators]>>
    dirs,          \* directories created by the run
    written        \* files opened for writing, in order: [path, content]

vars == <<packages_ok, argv, dataset, fitted, pc, exit_status, stdout, started,
          completed, failed_at, loaded, scaler, normed, model, metrics,
          cv_model, dirs, written>>

inputs == <<packages_ok, argv, dataset, fitted>>

----------------------------------------------------------------------------
(* Bounds *)

MaxTest == 3
MaxTrain == 6
MaxFeat == 1
MaxBest == 1

(* Program constants *)

n_estimators == 500
early_stopping_rounds == 30
cv == 5

----------------------------------------------------------------------------
(* Helpers *)

None == <<>>
Some(x) == <<x>>

RECURSIVE SumTo(_, _)
SumTo(f, n) == IF n = 0 THEN 0 ELSE f[n] + SumTo(f, n - 1)

Sum(s) == SumTo(s, Len(s))

IsPrefix(s, t) == Len(s) <= Len(t) /\ \A i \in 1..Len(s) : s[i] = t[i]

Range(s) == {s[i] : i \in 1..Len(s)}

NoDuplicates(s) == \A i, j \in 1..Len(s) : s[i] = s[j] => i = j

Frac(n, d) == <<n, d>>

----------------------------------------------------------------------------
(* normalize_data: StandardScaler *)

Width(X) == IF Len(X) = 0 THEN 0 ELSE Len(X[1])

Column(X, j) == [i \in 1..Len(X) |-> X[i][j]]

Mean(col) == Frac(Sum(col), Len(col))

\* population variance: (n * sum(x^2) - sum(x)^2) / n^2
Variance(col) ==
    LET n == Len(col)
        sq == [i \in 1..n |-> col[i] * col[i]]
    IN  Frac(n * Sum(sq) - Sum(col) * Sum(col), n * n)

\* scale_ is sqrt(var_) with a zero replaced by 1.0; kept as its square
ScaleSquared(col) ==
    LET v == Variance(col) IN IF v[1] = 0 THEN Frac(1, 1) ELSE v

StandardScaler_fit(X) ==
    [mean_  |-> [j \in 1..Width(X) |-> Mean(Column(X, j))],
     scale_ |-> [j \in 1..Width(X) |-> ScaleSquared(Column(X, j))]]

\* (x - mean) / scale, kept as the exact centred value and the squared scale
StandardScaler_transform(sc, X) ==
    [i \in 1..Len(X) |->
        [j \in 1..Width(X) |->
            [centred  |-> Frac(X[i][j] * sc.mean_[j][2] - sc.mean_[j][1], sc.mean_[j][2]),
             scale_sq |-> sc.scale_[j]]]]

\* faulty variant: the scaler is fitted on the training and the test rows together
normalize_data_fit_all(X_train, X_test) ==
    LET sc == StandardScaler_fit(X_train \o X_test)
    IN  [X_train_norm |-> StandardScaler_transform(sc, X_train),
         X_test_norm  |-> StandardScaler_transform(sc, X_test),
         scaler       |-> sc]

normalize_data(X_train, X_test) ==
    LET sc == StandardScaler_fit(X_train)
    IN  [X_train_norm |-> StandardScaler_transform(sc, X_train),
         X_test_norm  |-> StandardScaler_transform(sc, X_test),
         scaler       |-> sc]

\* fit_transform rejects a 1-D (empty) array; transform also a width mismatch
normalize_raises(X_train, X_test) ==
    \/ Len(X_train) = 0
    \/ Len(X_test) = 0
    \/ Width(X_test) # Width(X_train)

----------------------------------------------------------------------------
(* evaluate_model: predictions and core metrics *)

\* XGBClassifier.predict: class 1 where the probability exceeds 0.5
predict(y_proba) == [i \in 1..Len(y_proba) |-> IF y_proba[i] > 50 THEN 1 ELSE 0]

Count(y_test, y_pred, t, p) ==
    Cardinality({i \in 1..Len(y_test) : y_test[i] = t /\ y_pred[i] = p})

TP(y_test, y_pred) == Count(y_test, y_pred, 1, 1)
TN(y_test, y_pred) == Count(y_test, y_pred, 0, 0)
FP(y_test, y_pred) == Count(y_test, y_pred, 0, 1)
FN(y_test, y_pred) == Count(y_test, y_pred, 1, 0)

NumCorrect(y_test, y_pred) ==
    Cardinality({i \in 1..Len(y_test) : y_pred[i] = y_test[i]})

\* faulty variant: no zero_division argument, 0/0 is left as it is
precision_score_no_guard(y_test, y_pred) ==
    Frac(TP(y_test, y_pred), TP(y_test, y_pred) + FP(y_test, y_pred))

\* precision_score(..., zero_division=0)
precision_score(y_test, y_pred) ==
    IF TP(y_test, y_pred) + FP(y_test, y_pred) = 0
    THEN Frac(0, 1)
    ELSE Frac(TP(y_test, y_pred), TP(y_test, y_pred) + FP(y_test, y_pred))

\* recall_score(..., zero_division=0)
recall_score(y_test, y_pred) ==
    IF TP(y_test, y_pred) + FN(y_test, y_pred) = 0
    THEN Frac(0, 1)
    ELSE Frac(TP(y_test, y_pred), TP(y_test, y_pred) + FN(y_test, y_pred))

\* faulty variant: the wrong scorer is called, recall is stored as accuracy
accuracy_score_is_recall(y_test, y_pred) == recall_score(y_test, y_pred)

\* accuracy_score(y_test, y_pred)
accuracy_score(y_test, y_pred) == Frac(NumCorrect(y_test, y_pred), Len(y_test))

\* f1_score(..., zero_division=0): 2TP / (2TP + FP + FN)
f1_score(y_test, y_pred) ==
    LET d == 2 * TP(y_test, y_pred) + FP(y_test, y_pred) + FN(y_test, y_pred)
    IN  IF d = 0 THEN Frac(0, 1)
        ELSE Frac(2 * TP(y_test, y_pred), d)

OneClass(y_test) == Cardinality(Range(y_test)) < 2

\* roc_auc_score on two classes: the share of (positive, negative) pairs the
\* probabilities rank correctly, a tie counting one half
roc_auc_score(y_test, y_proba) ==
    LET pos == {i \in 1..Len(y_test) : y_test[i] = 1}
        neg == {i \in 1..Len(y_test) : y_test[i] = 0}
        won == Cardinality({q \in pos \X neg : y_proba[q[1]] > y_proba[q[2]]})
        tie == Cardinality({q \in pos \X neg : y_proba[q[1]] = y_proba[q[2]]})
    IN  Frac(2 * won + tie, 2 * Cardinality(pos) * Cardinality(neg))

\* on one class the score is undefined: the library raises ValueError or,
\* in later releases, warns and returns NaN
roc_auc_outcomes(y_test) ==
    IF OneClass(y_test) THEN {"raises", "nan"} ELSE {"value"}

NaN == Frac(0, 0)

SortedLabels(S) ==
    IF S = {0, 1} THEN <<0, 1>>
    ELSE IF S = {0} THEN <<0>>
    ELSE IF S = {1} THEN <<1>>
    ELSE <<>>

\* confusion_matrix(y_test, y_pred).tolist(): rows are true labels, columns
\* predicted labels, over the labels that occur in either
confusion_matrix(y_test, y_pred) ==
    LET L == SortedLabels(Range(y_test) \cup Range(y_pred))
    IN  [i \in 1..Len(L) |-> [j \in 1..Len(L) |-> Count(y_test, y_pred, L[i], L[j])]]

----------------------------------------------------------------------------
(* evaluate_model: confidence buckets and simulated trading *)

Max(a, b) == IF a >= b THEN a ELSE b
Min(a, b) == IF a <= b THEN a ELSE b

\* prob_max = np.maximum(y_proba, 1 - y_proba)
prob_max(y_proba) == [i \in 1..Len(y_proba) |-> Max(y_proba[i], 100 - y_proba[i])]

\* faulty variant: the last bucket ends at 1.0, exclusive like the others
buckets_closed_at_one ==
    << <<"50-55%", 50, 55>>, <<"55-60%", 55, 60>>, <<"60-65%", 60, 65>>,
       <<"65-70%", 65, 70>>, <<"70-80%", 70, 80>>, <<"80-90%", 80, 90>>,
       <<"90%+  ", 90, 100>> >>

\* (label, lo, hi) in percent
buckets ==
    << <<"50-55%", 50, 55>>, <<"55-60%", 55, 60>>, <<"60-65%", 60, 65>>,
       <<"65-70%", 65, 70>>, <<"70-80%", 70, 80>>, <<"80-90%", 80, 90>>,
       <<"90%+  ", 90, 101>> >>

CorrectIn(mask, y_test, y_pred) == Cardinality({i \in mask : y_pred[i] = y_test[i]})

calibration_data(y_test, y_pred, y_proba) ==
    LET pm == prob_max(y_proba)
        mask(b) == {i \in 1..Len(y_test) : pm[i] >= buckets[b][2] /\ pm[i] < buckets[b][3]}
        entry(b) ==
            [range    |-> buckets[b][1],
             total    |-> Cardinality(mask(b)),
             correct  |-> CorrectIn(mask(b), y_test, y_pred),
             accuracy |-> Frac(100 * CorrectIn(mask(b), y_test, y_pred), Cardinality(mask(b)))]
        all == [b \in 1..Len(buckets) |-> entry(b)]
    IN  SelectSeq(all, LAMBDA e : e.total > 0)

\* faulty variant: the list of thresholds is not in ascending order
thresholds_unsorted == <<60, 55, 65, 70, 75, 80, 85, 90>>

thresholds == <<55, 60, 65, 70, 75, 80, 85, 90>>

trading_results(y_test, y_pred, y_proba) ==
    LET pm == prob_max(y_proba)
        mask(t) == {i \in 1..Len(y_test) : pm[i] >= thresholds[t]}
        entry(t) ==
            [threshold |-> thresholds[t],
             trades    |-> Cardinality(mask(t)),
             wins      |-> CorrectIn(mask(t), y_test, y_pred),
             accuracy  |-> Frac(100 * CorrectIn(mask(t), y_test, y_pred), Cardinality(mask(t))),
             coverage  |-> Frac(100 * Cardinality(mask(t)), Len(y_test))]
        all == [t \in 1..Len(thresholds) |-> entry(t)]
    IN  SelectSeq(all, LAMBDA e : e.trades > 0)

\* the dict evaluate_model returns; auc is what roc_auc_score returned
evaluate_model(n_features, y_test, y_proba, auc) ==
    LET y_pred == predict(y_proba)
    IN  [accuracy           |-> accuracy_score(y_test, y_pred),
         precision          |-> precision_score(y_test, y_pred),
         recall             |-> recall_score(y_test, y_pred),
         f1                 |-> f1_score(y_test, y_pred),
         auc_roc            |-> auc,
         confusion_matrix   |-> confusion_matrix(y_test, y_pred),
         calibration        |-> calibration_data(y_test, y_pred, y_proba),
         trading_simulation |-> trading_results(y_test, y_pred, y_proba),
         feature_importance |-> Min(10, n_features)]

\* cm[1][1], cm[0][1] and cm[1][0] are printed: IndexError on a 1x1 matrix
evaluate_raises(y_test, y_proba) ==
    Len(confusion_matrix(y_test, predict(y_proba))) < 2

----------------------------------------------------------------------------
(* The script: module level, then main *)

\* faulty variant: the except branch prints but does not exit
install_check_falls_through(ok) == "main"

\* position after the try/except around the imports
install_check_next(ok) == IF ok THEN "main" ELSE "exited"

\* faulty variant: the model is exported before the cross-validation
MainSteps_export_first ==
    <<"load", "normalize", "fit", "evaluate", "makedirs", "export_model",
      "cross_validate", "save_normalization", "save_norm_browser", "save_report">>

\* the statements of main after the argument check, in program order
MainSteps ==
    <<"load", "normalize", "fit", "evaluate", "cross_validate", "makedirs",
      "export_model", "save_normalization", "save_norm_browser", "save_report">>

IndexOf(step) == CHOOSE i \in 1..Len(MainSteps) : MainSteps[i] = step

StepAfter(step) ==
    IF IndexOf(step) = Len(MainSteps) THEN "summary" ELSE MainSteps[IndexOf(step) + 1]

WriteSteps == {"export_model", "save_normalization", "save_norm_browser", "save_report"}

\* faulty variant: a failed file write is caught and the run goes on
after_exception_skip_write(step) ==
    IF step \in WriteSteps THEN StepAfter(step) ELSE "exited"

\* main has no handler: an exception raised in a step ends the process
after_exception(step) == "exited"

dirname(path) == path[1]

SCRIPT_DIR == "backtest/ml"

\* faulty variant: the models directory is placed beside the features file
models_dir_beside_input == <<dirname(argv[1]), "models">>

\* os.path.join(os.path.dirname(__file__), 'models')
models_dir == <<SCRIPT_DIR, "models">>

join(dir, name) == Append(dir, name)

\* a step of main returns
Returns(step) ==
    /\ started' = Append(started, step)
    /\ completed' = Append(completed, step)
    /\ pc' = StepAfter(step)
    /\ UNCHANGED <<exit_status, stdout, failed_at>>

\* a step of main raises: traceback, exit status 1
Raises(step) ==
    /\ started' = Append(started, step)
    /\ failed_at' = Some(step)
    /\ pc' = after_exception(step)
    /\ exit_status' = IF pc' = "exited" THEN Some(1) ELSE exit_status
    /\ stdout' = Append(stdout, "traceback")
    /\ UNCHANGED completed

install_check ==
    /\ pc = "import"
    /\ pc' = install_check_next(packages_ok)
    /\ \/ /\ packages_ok
          /\ UNCHANGED stdout
       \/ /\ ~packages_ok
          /\ stdout' = Append(stdout, "missing_package")
    /\ exit_status' = IF pc' = "exited" THEN Some(1) ELSE exit_status
    /\ UNCHANGED <<inputs, started, completed, failed_at, loaded, scaler, normed,
                   model, metrics, cv_model, dirs, written>>

main_entry ==
    /\ pc = "main"
    /\ \/ /\ Len(argv) < 1
          /\ stdout' = Append(stdout, "usage")
          /\ exit_status' = Some(1)
          /\ pc' = "exited"
       \/ /\ ~(Len(argv) < 1)
          /\ stdout' = Append(stdout, "banner")
          /\ pc' = MainSteps[1]
          /\ UNCHANGED exit_status
    /\ UNCHANGED <<inputs, started, completed, failed_at, loaded, scaler, normed,
                   model, metrics, cv_model, dirs, written>>

load_dataset ==
    /\ pc = "load"
    /\ \/ /\ dataset.valid /\ Len(dataset.trainFeatures) > 0
          /\ loaded' = Some([X_train |-> dataset.trainFeatures,
                             y_train |-> dataset.trainLabels,
                             X_test  |-> dataset.testFeatures,
                             y_test  |-> dataset.testLabels])
          /\ Returns("load")
       \/ \* open or json.load fails, a key is missing, an array is ragged,
          \* or X_train.shape[1] is read from an empty array
          /\ ~(dataset.valid /\ Len(dataset.trainFeatures) > 0)
          /\ Raises("load")
          /\ UNCHANGED loaded
    /\ UNCHANGED <<inputs, scaler, normed, model, metrics, cv_model, dirs, written>>

normalize ==
    /\ pc = "normalize"
    /\ \/ /\ ~normalize_raises(loaded[1].X_train, loaded[1].X_test)
          /\ LET r == normalize_data(loaded[1].X_train, loaded[1].X_test)
             IN  /\ scaler' = Some(r.scaler)
                 /\ normed' = Some([X_train_norm |-> r.X_train_norm,
                                    X_test_norm  |-> r.X_test_norm])
          /\ Returns("normalize")
       \/ /\ normalize_raises(loaded[1].X_train, loaded[1].X_test)
          /\ Raises("normalize")
          /\ UNCHANGED <<scaler, normed>>
    /\ UNCHANGED <<inputs, loaded, model, metrics, cv_model, dirs, written>>

\* rounds boosted before early stopping ends the fit: the fit stops once
\* early_stopping_rounds rounds have passed without a new best iteration
num_boosted_rounds(best_iteration) ==
    Min(best_iteration + 1 + early_stopping_rounds, n_estimators)

train_xgboost ==
    /\ pc = "fit"
    /\ \/ /\ Len(loaded[1].y_train) = Len(loaded[1].X_train)
          /\ Len(loaded[1].y_test) = Len(loaded[1].X_test)
          /\ model' = Some([best_iteration     |-> fitted.best_iteration,
                            num_boosted_rounds |-> num_boosted_rounds(fitted.best_iteration),
                            n_features_in_     |-> Width(loaded[1].X_train)])
          /\ Returns("fit")
       \/ \* labels and rows differ in number
          /\ \/ Len(loaded[1].y_train) # Len(loaded[1].X_train)
             \/ Len(loaded[1].y_test) # Len(loaded[1].X_test)
          /\ Raises("fit")
          /\ UNCHANGED model
       \/ \* an error inside the library
          /\ Raises("fit")
          /\ UNCHANGED model
    /\ UNCHANGED <<inputs, loaded, scaler, normed, metrics, cv_model, dirs, written>>

evaluate ==
    /\ pc = "evaluate"
    /\ LET y_test  == loaded[1].y_test
           y_proba == fitted.y_proba
       IN  \E auc \in roc_auc_outcomes(y_test) :
             \/ /\ auc # "raises"
                /\ ~evaluate_raises(y_test, y_proba)
                /\ metrics' = Some(evaluate_model(
                                  model[1].n_features_in_, y_test, y_proba,
                                  IF auc = "nan" THEN NaN ELSE roc_auc_score(y_test, y_proba)))
                /\ Returns("evaluate")
             \/ /\ auc = "raises" \/ evaluate_raises(y_test, y_proba)
                /\ Raises("evaluate")
                /\ UNCHANGED metrics
    /\ UNCHANGED <<inputs, loaded, scaler, normed, model, cv_model, dirs, written>>

ClassCount(y, c) == Cardinality({i \in 1..Len(y) : y[i] = c})

\* StratifiedKFold(5) rejects labels none of whose classes has 5 members
cross_val_raises(y_train) ==
    \A c \in Range(y_train) : ClassCount(y_train, c) < cv

cross_validate ==
    /\ pc = "cross_validate"
    /\ \/ /\ ~cross_val_raises(loaded[1].y_train)
          /\ cv_model' = Some([n_estimators |-> model[1].best_iteration + 1])
          /\ Returns("cross_validate")
       \/ /\ cross_val_raises(loaded[1].y_train)
          /\ Raises("cross_validate")
          /\ UNCHANGED cv_model
    /\ UNCHANGED <<inputs, loaded, scaler, normed, model, metrics, dirs, written>>

makedirs ==
    /\ pc = "makedirs"
    /\ \/ /\ dirs' = dirs \cup {models_dir}
          /\ Returns("makedirs")
       \/ \* OSError
          /\ Raises("makedirs")
          /\ UNCHANGED dirs
    /\ UNCHANGED <<inputs, loaded, scaler, normed, model, metrics, cv_model, written>>

\* booster.get_dump(): one tree for every round boosted
get_dump(m) == [i \in 1..m.num_boosted_rounds |-> i - 1]

model_export ==
    LET trees == get_dump(model[1])
    IN  [type         |-> "xgboost",
         num_trees    |-> Len(trees),
         num_features |-> model[1].n_features_in_,
         trees        |-> trees]

norm_data ==
    [means |-> scaler[1].mean_, stds |-> scaler[1].scale_, feature_names |-> TRUE]

norm_browser == [means |-> norm_data.means, stds |-> norm_data.stds]

report ==
    [metrics       |-> metrics[1],
     train_samples |-> Len(loaded[1].y_train),
     test_samples  |-> Len(loaded[1].y_test),
     num_features  |-> Width(loaded[1].X_train),
     num_trees     |-> model[1].best_iteration + 1]

\* with open(path, 'w') as f: json.dump(content, f).  The file exists from
\* the open on; a dump that raises leaves it incomplete.
WriteFile(step, name, content) ==
    /\ pc = step
    /\ \/ /\ written' = Append(written, [path |-> join(models_dir, name),
                                         complete |-> TRUE, content |-> content])
          /\ Returns(step)
       \/ \* open raises
          /\ Raises(step)
          /\ UNCHANGED written
       \/ \* json.dump raises
          /\ written' = Append(written, [path |-> join(models_dir, name),
                                         complete |-> FALSE, content |-> content])
          /\ Raises(step)
    /\ UNCHANGED <<inputs, loaded, scaler, normed, model, metrics, cv_model, dirs>>

export_xgboost_to_json == WriteFile("export_model", "xgboost_model.json", model_export)

save_normalization == WriteFile("save_normalization", "normalization.json", norm_data)

save_norm_browser == WriteFile("save_norm_browser", "norm_browser.json", norm_browser)

save_report == WriteFile("save_report", "training_report.json", report)

summary ==
    /\ pc = "summary"
    /\ stdout' = Append(stdout, "training_complete")
    /\ exit_status' = Some(0)
    /\ pc' = "exited"
    /\ UNCHANGED <<inputs, started, completed, failed_at, loaded, scaler, normed,
                   model, metrics, cv_model, dirs, written>>

Next ==
    \/ install_check
    \/ main_entry
    \/ load_dataset
    \/ normalize
    \/ train_xgboost
    \/ evaluate
    \/ cross_validate
    \/ makedirs
    \/ export_xgboost_to_json
    \/ save_normalization
    \/ save_norm_browser
    \/ save_report
    \/ summary

----------------------------------------------------------------------------
(* Inputs *)

FeaturesA == <<"backtest/ml/data", "features_a.json">>
FeaturesB == <<"/tmp", "features_b.json">>

Rows == {<<a, b>> : a, b \in 0..MaxFeat}
RowLo == <<0, 0>>
RowHi == <<MaxFeat, 0>>

\* n rows, alternately r1 and r2
Matrix(n, r1, r2) == [i \in 1..n |-> IF i % 2 = 1 THEN r1 ELSE r2]

\* n labels, the first k of them 1
LabelsOf(n, k) == [i \in 1..n |-> IF i <= k THEN 1 ELSE 0]

\* predicted probabilities in percent: every bucket bound and both ends
ProbGrid == {0, 20, 30, 35, 45, 50, 58, 60, 90, 100}

BestIterations ==
    (0..MaxBest) \cup {n_estimators - 1 - early_stopping_rounds, n_estimators - 1}

DS(valid, Xtr, ytr, Xte, yte) ==
    [valid |-> valid, trainFeatures |-> Xtr, trainLabels |-> ytr,
     testFeatures |-> Xte, testLabels |-> yte]

Input(ok, av, ds, b, proba) ==
    [packages_ok |-> ok, argv |-> av, dataset |-> ds,
     fitted |-> [best_iteration |-> b, y_proba |-> proba]]

GoodTrainX == Matrix(MaxTrain, RowLo, RowHi)
GoodTrainY == LabelsOf(MaxTrain, MaxTrain - 1)

\* the inputs on which a step fails, and one on which none does
EdgeDatasets ==
    { <<DS(FALSE, <<>>, <<>>, <<>>, <<>>), <<>>>>,
      <<DS(TRUE, <<>>, <<>>, Matrix(1, RowLo, RowLo), <<1>>), <<90>>>>,
      <<DS(TRUE, GoodTrainX, GoodTrainY, <<>>, <<>>), <<>>>>,
      <<DS(TRUE, GoodTrainX, GoodTrainY, <<<<0>>>>, <<1>>), <<90>>>>,
      <<DS(TRUE, GoodTrainX, LabelsOf(MaxTrain - 1, 1), Matrix(1, RowLo, RowLo), <<1>>), <<90>>>>,
      <<DS(TRUE, Matrix(3, RowLo, RowHi), LabelsOf(3, 1), Matrix(2, RowLo, RowHi), <<0, 1>>), <<30, 90>>>>,
      <<DS(TRUE, GoodTrainX, GoodTrainY, Matrix(1, RowLo, RowLo), <<1>>), <<90>>>>,
      <<DS(TRUE, GoodTrainX, GoodTrainY, Matrix(2, RowLo, RowHi), <<1, 1>>), <<90, 30>>>>,
      <<DS(TRUE, GoodTrainX, GoodTrainY, Matrix(2, RowLo, RowHi), <<0, 1>>), <<30, 90>>>> }

EdgeInputs ==
    {Input(ok, av, e[1], 0, e[2]) :
        ok \in BOOLEAN, av \in {<<>>, <<FeaturesA>>}, e \in EdgeDatasets}

\* control flow: training sets of every length and class balance, both
\* input paths, every best iteration, a few small test sets
SmallTests ==
    { <<Matrix(2, RowLo, RowHi), <<0, 1>>, <<30, 90>>>>,
      <<Matrix(2, RowLo, RowHi), <<1, 0>>, <<45, 58>>>>,
      <<Matrix(1, RowLo, RowLo), <<1>>, <<90>>>>,
      <<Matrix(2, RowLo, RowHi), <<1, 1>>, <<90, 30>>>> }

PipelineInputs ==
    {Input(TRUE, <<f>>, DS(TRUE, Matrix(nk[1], RowLo, RowHi), LabelsOf(nk[1], nk[2]), t[1], t[2]),
           b, t[3]) :
        f \in {FeaturesA, FeaturesB},
        nk \in {q \in (0..MaxTrain) \X (0..MaxTrain) : q[2] <= q[1]},
        t \in SmallTests,
        b \in BestIterations}

\* evaluation: every test set of up to MaxTest samples (label, probability),
\* the samples in ascending order
Samples == {0, 1} \X ProbGrid

SampleKey(x) == x[1] * 1000 + x[2]

TestSets ==
    UNION {{t \in [1..m -> Samples] :
               \A i \in 1..(m - 1) : SampleKey(t[i]) <= SampleKey(t[i + 1])} :
           m \in 0..MaxTest}

EvalInputs ==
    {Input(TRUE, <<FeaturesA>>,
           DS(TRUE, GoodTrainX, GoodTrainY, Matrix(Len(t), RowLo, RowHi),
              [i \in 1..Len(t) |-> t[i][1]]),
           MaxBest, [i \in 1..Len(t) |-> t[i][2]]) :
        t \in TestSets}

\* normalization: training and test rows of every value
NormInputs ==
    {Input(TRUE, <<FeaturesA>>,
           DS(TRUE, Matrix(n, r1, r2), LabelsOf(n, n - 1), Matrix(m, r3, <<r3[2], r3[1]>>),
              LabelsOf(m, 1)),
           MaxBest, [i \in 1..m |-> IF i = 1 THEN 90 ELSE 30]) :
        n \in {MaxTrain - 1, MaxTrain}, r1 \in Rows, r2 \in Rows, m \in 1..2, r3 \in Rows}

InitOver(I) ==
    /\ \E in \in I \cup EdgeInputs :
          /\ packages_ok = in.packages_ok
          /\ argv = in.argv
          /\ dataset = in.dataset
          /\ fitted = in.fitted
    /\ pc = "import"
    /\ exit_status = None
    /\ stdout = <<>>
    /\ started = <<>>
    /\ completed = <<>>
    /\ failed_at = None
    /\ loaded = None
    /\ scaler = None
    /\ normed = None
    /\ model = None
    /\ metrics = None
    /\ cv_model = None
    /\ dirs = {}
    /\ written = <<>>

Init == InitOver(PipelineInputs)

InitEval == InitOver(EvalInputs)

InitNorm == InitOver(NormInputs)

Spec == Init /\ [][Next]_vars

SpecEval == InitEval /\ [][Next]_vars

SpecNorm == InitNorm /\ [][Next]_vars

----------------------------------------------------------------------------
(* Properties *)

OutputNames ==
    <<"xgboost_model.json", "normalization.json", "norm_browser.json",
      "training_report.json">>

OutputPaths == [i \in 1..4 |-> <<"backtest/ml", "models", OutputNames[i]>>]

WrittenPaths == [i \in 1..Len(written) |-> written[i].path]

NothingDone == started = <<>> /\ dirs = {} /\ written = <<>>

InUnit(r) == r[2] > 0 /\ 0 <= r[1] /\ r[1] <= r[2]

IsZero(r) == r[2] > 0 /\ r[1] = 0

Confidence(p) == IF p >= 100 - p THEN p ELSE 100 - p

\* C1: when a required package is missing, or no positional argument is
\* given, the process prints its message and exits with status 1 having run
\* no step of the pipeline, created no directory and written no file; the
\* package check comes first, so a missing package is what is reported when
\* the argument is missing too.
C1_HandledErrorsExit ==
    /\ (~packages_ok \/ Len(argv) < 1) => NothingDone
    /\ (~packages_ok /\ pc # "import") =>
          pc = "exited" /\ exit_status = Some(1) /\ stdout = <<"missing_package">>
    /\ (packages_ok /\ Len(argv) < 1 /\ pc \notin {"import", "main"}) =>
          pc = "exited" /\ exit_status = Some(1) /\ stdout = <<"usage">>

C1_Witness ==
    /\ ~packages_ok /\ Len(argv) < 1
    /\ pc = "exited" /\ exit_status = Some(1) /\ stdout = <<"missing_package">>

StageIndex(step) ==
    CASE step = "load" -> 1
      [] step = "normalize" -> 2
      [] step = "fit" -> 3
      [] step = "evaluate" -> 4
      [] step = "cross_validate" -> 5
      [] OTHER -> 6

\* C2: the stages run in the order load, normalize, fit, evaluate,
\* cross-validate, export; no step runs twice, a stage starts only after
\* every earlier stage has completed, and no file is written before the
\* cross-validation has completed.
C2_StagesInOrder ==
    /\ NoDuplicates(started)
    /\ \A i, j \in 1..Len(started) :
          i < j => StageIndex(started[i]) <= StageIndex(started[j])
    /\ \A i \in 1..Len(started) : \A k \in 1..(StageIndex(started[i]) - 1) :
          \E j \in 1..Len(completed) : j < i /\ StageIndex(completed[j]) = k
    /\ IsPrefix(completed, started) /\ Len(started) <= Len(completed) + 1
    /\ (written # <<>> \/ dirs # {}) => "cross_validate" \in Range(completed)

C2_Witness ==
    /\ pc = "exited" /\ exit_status = Some(0)
    /\ Len(started) = 10 /\ Len(written) = 4

\* C3: a run that ends with no step failing has written exactly the four
\* files xgboost_model.json, normalization.json, norm_browser.json and
\* training_report.json, each once and whole, in the models directory beside
\* the script, whatever path the features file was given by.
C3_FourFilesBesideScript ==
    (pc = "exited" /\ exit_status = Some(0)) =>
        /\ WrittenPaths = OutputPaths
        /\ \A i \in 1..Len(written) : written[i].complete
        /\ dirs = {<<"backtest/ml", "models">>}
        /\ failed_at = None

C3_Witness ==
    /\ pc = "exited" /\ exit_status = Some(0)
    /\ argv = <<FeaturesB>>
    /\ WrittenPaths = OutputPaths

\* C4: a failure in a step ends the run there with status 1: the failing
\* step was started once and is the last one started, every step before it
\* completed, nothing runs after it, and what was written stays, so the
\* files present are a prefix of the write order, all whole except possibly
\* the one being written when the failure came.
C4_FailureStopsRun ==
    failed_at # None =>
        /\ pc = "exited" /\ exit_status = Some(1)
        /\ started = Append(completed, failed_at[1])
        /\ NoDuplicates(started)
        /\ IsPrefix(WrittenPaths, OutputPaths)
        /\ \A i \in 1..Len(written) :
              \/ written[i].complete
              \/ i = Len(written) /\ failed_at[1] \in WriteSteps
        /\ Cardinality({i \in 1..Len(written) : written[i].complete})
              = Cardinality(Range(completed) \cap WriteSteps)

C4_Witness ==
    /\ failed_at = Some("save_norm_browser")
    /\ Len(written) = 3 /\ ~written[3].complete
    /\ written[1].complete /\ written[2].complete

Reported == metrics # None

TestLabels == dataset.testLabels

NumTest == Len(dataset.testLabels)

\* test samples the model classifies correctly: class 1 is predicted where
\* the probability is above one half
Hits == {i \in 1..NumTest : (fitted.y_proba[i] > 50) <=> (TestLabels[i] = 1)}

\* C5: whenever evaluate_model returns, the entries of the confusion matrix
\* in the metrics sum to the number of test samples, and true positives
\* plus true negatives equal accuracy times the number of test samples.
C5_ConfusionMatrixTotals ==
    Reported =>
        LET cm  == metrics[1].confusion_matrix
            acc == metrics[1].accuracy
        IN  /\ Len(cm) = 2 /\ Len(cm[1]) = 2 /\ Len(cm[2]) = 2
            /\ cm[1][1] + cm[1][2] + cm[2][1] + cm[2][2] = NumTest
            /\ acc[2] > 0
            /\ (cm[1][1] + cm[2][2]) * acc[2] = acc[1] * NumTest

C5_Witness ==
    /\ Reported
    /\ NumTest = 3
    /\ metrics[1].confusion_matrix[1][2] > 0
    /\ metrics[1].confusion_matrix[2][1] > 0
    /\ metrics[1].confusion_matrix[2][2] > 0

\* C6 as stated: on every test set of binary labels, one class only
\* included, evaluate_model reports accuracy, precision, recall, F1 and AUC,
\* each between 0 and 1.
C6_AllMetricsInUnitRange ==
    "evaluate" \in Range(started) =>
        /\ Reported
        /\ InUnit(metrics[1].accuracy)
        /\ InUnit(metrics[1].precision)
        /\ InUnit(metrics[1].recall)
        /\ InUnit(metrics[1].f1)
        /\ InUnit(metrics[1].auc_roc)

\* C6, amended: on every test set that holds both classes evaluate_model
\* returns and each of accuracy, precision, recall, F1 and AUC is between 0
\* and 1; whenever it returns, accuracy, precision, recall and F1 are
\* between 0 and 1, and precision, recall and F1 are 0 when the model
\* predicts no positive or the test set has none; on a test set of one
\* class the AUC is undefined and evaluate_model raises or reports NaN.
C6_MetricsInUnitRange ==
    /\ ("evaluate" \in Range(started) /\ ~OneClass(TestLabels)) => Reported
    /\ Reported =>
          /\ InUnit(metrics[1].accuracy)
          /\ InUnit(metrics[1].precision)
          /\ InUnit(metrics[1].recall)
          /\ InUnit(metrics[1].f1)
          /\ ~OneClass(TestLabels) => InUnit(metrics[1].auc_roc)
          /\ OneClass(TestLabels) => metrics[1].auc_roc = NaN
          /\ (\/ \A i \in 1..NumTest : fitted.y_proba[i] <= 50
              \/ \A i \in 1..NumTest : TestLabels[i] = 0) =>
                /\ IsZero(metrics[1].precision)
                /\ IsZero(metrics[1].recall)
                /\ IsZero(metrics[1].f1)

C6_Witness ==
    /\ Reported
    /\ ~OneClass(TestLabels)
    /\ \A i \in 1..NumTest : fitted.y_proba[i] <= 50
    /\ IsZero(metrics[1].precision)
    /\ metrics[1].auc_roc[1] = metrics[1].auc_roc[2]

\* C7: the means and standard deviations applied to the training and the
\* test features, and written to normalization.json and norm_browser.json,
\* are those of the training features alone: they are a function of the
\* training features, so runs that differ only in the test set write the
\* same means and stds.
C7_TrainStatisticsOnly ==
    LET X     == dataset.trainFeatures
        means == [j \in 1..Width(X) |-> Frac(Sum(Column(X, j)), Len(X))]
        stds  == [j \in 1..Width(X) |-> ScaleSquared(Column(X, j))]
    IN  /\ scaler # None => scaler[1].mean_ = means /\ scaler[1].scale_ = stds
        /\ normed # None =>
              /\ normed[1].X_train_norm = StandardScaler_transform(
                     [mean_ |-> means, scale_ |-> stds], X)
              /\ normed[1].X_test_norm = StandardScaler_transform(
                     [mean_ |-> means, scale_ |-> stds], dataset.testFeatures)
        /\ \A i \in 1..Len(written) :
              written[i].path[3] \in {"normalization.json", "norm_browser.json"} =>
                  written[i].content.means = means /\ written[i].content.stds = stds

C7_Witness ==
    /\ Len(written) >= 3
    /\ written[2].complete /\ written[3].complete
    /\ written[3].content.means = StandardScaler_fit(dataset.trainFeatures).mean_
    /\ StandardScaler_fit(dataset.trainFeatures \o dataset.testFeatures).mean_
          # StandardScaler_fit(dataset.trainFeatures).mean_

\* the bucket bounds in percent, in the order of evaluate_model's list
BucketBounds ==
    << <<50, 55>>, <<55, 60>>, <<60, 65>>, <<65, 70>>, <<70, 80>>, <<80, 90>>,
       <<90, 101>> >>

BucketLabels == <<"50-55%", "55-60%", "60-65%", "65-70%", "70-80%", "80-90%", "90%+  ">>

InBucket(i, b) ==
    /\ Confidence(fitted.y_proba[i]) >= BucketBounds[b][1]
    /\ Confidence(fitted.y_proba[i]) < BucketBounds[b][2]

\* C8: the seven confidence buckets partition the test set: every sample is
\* counted in exactly one emitted entry, the totals sum to the test-set size
\* and the corrects to the number of correctly predicted samples; an entry is
\* emitted exactly for the buckets that hold a sample, and each entry has
\* total >= 1 and 0 <= correct <= total.
C8_BucketsPartition ==
    Reported =>
        LET cal == metrics[1].calibration
        IN  /\ \A i \in 1..NumTest :
                  Cardinality({k \in 1..Len(cal) :
                      \E b \in 1..7 : cal[k].range = BucketLabels[b] /\ InBucket(i, b)}) = 1
            /\ Sum([k \in 1..Len(cal) |-> cal[k].total]) = NumTest
            /\ Sum([k \in 1..Len(cal) |-> cal[k].correct]) = Cardinality(Hits)
            /\ \A k \in 1..Len(cal) :
                  /\ cal[k].total >= 1
                  /\ 0 <= cal[k].correct /\ cal[k].correct <= cal[k].total
            /\ \A b \in 1..7 :
                  (\E i \in 1..NumTest : InBucket(i, b))
                      <=> (\E k \in 1..Len(cal) : cal[k].range = BucketLabels[b])
            /\ \A k, l \in 1..Len(cal) : cal[k].range = cal[l].range => k = l

C8_Witness ==
    /\ Reported
    /\ Len(metrics[1].calibration) = 3
    /\ \E i \in 1..NumTest : fitted.y_proba[i] = 100
    /\ \E i \in 1..NumTest : fitted.y_proba[i] = 45
    /\ metrics[1].calibration[3].range = "90%+  "

AscendingThresholds == <<55, 60, 65, 70, 75, 80, 85, 90>>

\* C9: over the ascending thresholds the number of trades, the samples whose
\* confidence is at least the threshold, never increases; the thresholds
\* that appear are a prefix of the list, and every entry that appears has
\* 1 <= trades <= test-set size and 0 <= wins <= trades.
C9_TradesNeverIncrease ==
    Reported =>
        LET tr == metrics[1].trading_simulation
        IN  /\ IsPrefix([k \in 1..Len(tr) |-> tr[k].threshold], AscendingThresholds)
            /\ \A k \in 1..Len(tr) :
                  /\ tr[k].trades = Cardinality({i \in 1..NumTest :
                         Confidence(fitted.y_proba[i]) >= tr[k].threshold})
                  /\ 1 <= tr[k].trades /\ tr[k].trades <= NumTest
                  /\ 0 <= tr[k].wins /\ tr[k].wins <= tr[k].trades
            /\ \A k, l \in 1..Len(tr) : k < l => tr[k].trades >= tr[l].trades
            /\ \A t \in 1..8 : t > Len(tr) =>
                  ~\E i \in 1..NumTest : Confidence(fitted.y_proba[i]) >= AscendingThresholds[t]

C9_Witness ==
    /\ Reported
    /\ Len(metrics[1].trading_simulation) = 4
    /\ metrics[1].trading_simulation[1].trades = 3
    /\ metrics[1].trading_simulation[3].trades = 2
    /\ metrics[1].trading_simulation[4].trades = 1

\* C10 as stated: after a successful run the num_trees of
\* training_report.json equals the num_trees and the number of trees of
\* xgboost_model.json.
C10_NumTreesAgree ==
    (pc = "exited" /\ exit_status = Some(0)) =>
        /\ written[4].content.num_trees = written[1].content.num_trees
        /\ written[4].content.num_trees = Len(written[1].content.trees)

====
